---------------------------- MODULE Spec2Model ----------------------------
(***************************************************************************)
(* A model of inputexec's event pipeline: Loop.loop() (loop.py) driving a  *)
(* reader and a command executor (executors.py): BlockingExcutor runs the  *)
(* mapped command inline, AsyncExecutor hands it to a pool of AsyncWorker  *)
(* threads through a queue.Queue.                                          *)
(***************************************************************************)
EXTENDS Integers, Sequences, FiniteSets, TLC

\* ------------------------------------------------------------------ bounds
\* The reader yields at most MaxEvents events before its input ends.
MaxEvents == 2
\* The largest job count (number of AsyncWorker threads) explored.
MaxJobs == 2

\* ------------------------------------------------------------------ events
\* events.Event: the four slots of an event.
Event(kind, code, symbol, value) ==
    [kind |-> kind, code |-> code, symbol |-> symbol, value |-> value]

\* Event.key() with its default pattern '{kind}.{symbol}', as the command
\* executors call it.
EventKey(e) == e.kind \o "." \o e.symbol

\* The events the reader may yield (reader.read() is the input of the loop).
Events ==
    { Event("keypress", 30, "A", 1),
      Event("keypress", 48, "B", 1),
      Event("keyrelease", 30, "A", 0),
      Event("keyrelease", 48, "B", 0),
      Event("keyhold", 48, "B", 2) }

\* ------------------------------------------------------------- command map
\* The command map handed to BaseCommandExecutor.__init__: key -> command.
\* "keyrelease.B" and "keyhold.B" are not mapped.
command_map ==
    ( "keypress.A"   :> "echo hi" ) @@
    ( "keypress.B"   :> "false" ) @@
    ( "keyrelease.A" :> "no-such-command" )

\* subprocess.Popen(args): launching a program that does not exist raises
\* OSError; the other commands start.
PopenRaises(command) == command = "no-such-command"

\* p.returncode after p.communicate().
ReturnCode(command) == IF command = "false" THEN 1 ELSE 0

\* executors.Task: key, event, command.  id is the object's identity: the
\* number of the handle() call that built it.
Task(id, key, event, command) ==
    [id |-> id, key |-> key, event |-> event, command |-> command]

NoTask == [id |-> 0]
NoEvent == [kind |-> "none"]

\* ------------------------------------------------------------------- state
VARIABLES
    executor,        \* the executor of the Loop: its class and nb_jobs
    pc,              \* where Loop.loop() is, in the main thread
    event,           \* the event read() yielded, while it is being handled
    pending,         \* the exception in flight while the finally block runs
    exc,             \* the exception loop() raised, "none" so far
    interrupts,      \* the places where a KeyboardInterrupt was raised
    yielded,         \* history: the events reader.read() yielded
    handled,         \* history: the events passed to executor.handle()
    calls,           \* history: the setup()/cleanup() calls made by loop()
    count,           \* the local count of loop(): handle() calls that returned
    unmapped_events, \* BaseCommandExecutor.unmapped_events
    log,             \* the records the logger emitted
    submitted,       \* history: ids of the tasks passed to run_task()
    started,         \* history: ids of the tasks whose execute() began
    finished,        \* history: ids of the tasks whose execute() ended
    child,           \* the task whose child process the main thread waits on
    queue,           \* AsyncExecutor.queue: the tasks put and not yet got
    unfinished,      \* queue.unfinished_tasks
    stopped,         \* AsyncExecutor.stopped (threading.Event)
    wpc,             \* per worker: where AsyncWorker.run() is
    wtask,           \* per worker: the task it got from the queue
    out,             \* PrintingExecutor.out: the sink, its buffer and content
    exit,            \* how the process ended: status and standard error
    obj,             \* lifecycle: the reader or executor whose methods are called
    ops,             \* lifecycle: the calls made on obj, with their outcomes
    dir,             \* EvdevDirReader: devices, the handles opened, the observer
    nodes,           \* the paths of the directory that are device nodes now
    watch,           \* the changes of the directory the observer has to deliver
    rd,              \* EvdevDirReader.read(): where the generator is, its locals
    last_call,       \* the last register_device/unregister_device call
    reader,          \* LineReader: pattern and end_line
    raw,             \* the raw input handed to a reader
    made,            \* what the reader made of it
    stream           \* read(): the raw inputs consumed, the events yielded

loopVars ==
    <<pc, event, pending, exc, interrupts, yielded, handled, calls, count>>
cmdVars == <<unmapped_events, log, submitted, started, finished, child>>
asyncVars == <<queue, unfinished, stopped, wpc, wtask>>
lifecycleVars == <<obj, ops>>
dirVars == <<dir, nodes, watch, rd, last_call>>
readerVars == <<reader, raw, made, stream>>
\* The variables of the other specifications of this module.
otherVars == <<lifecycleVars, dirVars, readerVars>>
\* The variables of the specification of the loop and of Setup.run.
runVars == <<executor, loopVars, cmdVars, asyncVars, out, exit>>
vars == <<runVars, otherVars>>

\* The values of the variables of a specification that does not run.
LifecycleIdle == obj = [cls |-> "none"] /\ ops = <<>>
DirIdle ==
    /\ dir = [observer |-> "none"]
    /\ nodes = {}
    /\ watch = <<>>
    /\ rd = [pc |-> "none"]
    /\ last_call = [op |-> "none"]
ReaderIdle ==
    /\ reader = [cls |-> "none"]
    /\ raw = <<>>
    /\ made = [outcome |-> "none"]
    /\ stream = [arrived |-> <<>>, yielded |-> <<>>, state |-> "reading"]
OtherInit == LifecycleIdle /\ DirIdle /\ ReaderIdle

Workers == 1..MaxJobs

IsAsync == executor.cls = "AsyncExecutor"
IsBlocking == executor.cls = "BlockingExcutor"
IsPrinting == executor.cls = "PrintingExecutor"

\* PrintingExecutor.end_line, as cli.py passes it (unescape of '\\n').
end_line == "\n"

\* PrintingExecutor.out after __init__: None.  buffer is what was written
\* and not yet flushed, content what reached the sink.
NoOut == [obj |-> "None", closed |-> FALSE, buffer |-> "", content |-> ""]

\* The process has not ended.
NoExit == [status |-> "running"]

\* What Loop.__init__, BaseCommandExecutor.__init__, AsyncExecutor.__init__
\* and PrintingExecutor.__init__ set.
RunStart ==
    /\ event = NoEvent
    /\ pending = "none"
    /\ exc = "none"
    /\ interrupts = <<>>
    /\ yielded = <<>>
    /\ handled = <<>>
    /\ calls = <<>>
    /\ count = 0
    /\ unmapped_events = {}
    /\ log = <<>>
    /\ submitted = <<>>
    /\ started = <<>>
    /\ finished = <<>>
    /\ child = NoTask
    /\ queue = <<>>
    /\ unfinished = 0
    /\ stopped = FALSE
    /\ wpc = [w \in Workers |-> "unborn"]
    /\ wtask = [w \in Workers |-> NoTask]
    /\ out = NoOut
    /\ exit = NoExit

\* Setup.run with a BlockingExcutor, an AsyncExecutor(jobs=n) or a
\* PrintingExecutor.
Init ==
    /\ executor \in
         { [cls |-> "BlockingExcutor", nb_jobs |-> 0] } \cup
         { [cls |-> "AsyncExecutor", nb_jobs |-> n] : n \in 1..MaxJobs } \cup
         { [cls |-> "PrintingExecutor", nb_jobs |-> 0, out_filename |-> f] :
              f \in {"-", "events.out"} }
    /\ pc = "make_runner"
    /\ RunStart
    /\ OtherInit

\* The values of the variables of Setup.run in a specification where it does
\* not run.
RunIdle ==
    /\ executor = [cls |-> "none", nb_jobs |-> 0]
    /\ pc = "idle"
    /\ RunStart

\* ------------------------------------------------------ TaskRunner.execute
\* execute() up to subprocess.Popen(args), when Popen raises: the exception
\* leaves execute() at once.
ExecuteRaises(task) ==
    /\ started' = Append(started, task.id)
    /\ finished' = Append(finished, task.id)

\* execute() up to subprocess.Popen(args), when the child process starts.
ExecutePopen(task) ==
    /\ started' = Append(started, task.id)
    /\ UNCHANGED finished

\* The rest of execute(): p.communicate() returns when the child has exited,
\* and a non-zero return code is logged as a warning.
ExecuteCommunicate(task) ==
    /\ finished' = Append(finished, task.id)
    /\ log' = IF ReturnCode(task.command) # 0
                THEN Append(log, <<"warning", "exited", task.id>>)
                ELSE log
    /\ UNCHANGED started

\* The whole of execute() when the child process starts: Popen,
\* communicate(), the warning.
ExecuteRun(task) ==
    /\ started' = Append(started, task.id)
    /\ finished' = Append(finished, task.id)
    /\ log' = IF ReturnCode(task.command) # 0
                THEN Append(log, <<"warning", "exited", task.id>>)
                ELSE log

\* ------------------------------------------------- BaseCommandExecutor
\* A variant of _handle_not_found that forgets the seen-set test.
HandleNotFoundAlways(key) ==
    /\ unmapped_events' = unmapped_events \cup {key}
    /\ log' = Append(log, <<"info", "unmapped", key>>)

\* _handle_not_found(key, event): log the key unless it was logged before.
HandleNotFound(key) ==
    /\ unmapped_events' = unmapped_events \cup {key}
    /\ log' = IF key \in unmapped_events
                THEN log
                ELSE Append(log, <<"info", "unmapped", key>>)

\* A variant of BlockingExcutor.run_task that starts the child process and
\* returns without waiting for it (no p.communicate()).
BlockingRunTaskNoWait(task) ==
    /\ submitted' = Append(submitted, task.id)
    /\ ExecutePopen(task)
    /\ child' = task
    /\ pc' = "read"
    /\ event' = NoEvent
    /\ count' = count + 1
    /\ UNCHANGED <<pending, log, asyncVars>>

\* BlockingExcutor.run_task(task): self.runner.execute(task), up to Popen.
\* An OSError raised by Popen is caught nowhere on the way out of handle()
\* and of the for loop of Loop.loop(), whose finally block runs next.
BlockingRunTask(task) ==
    /\ submitted' = Append(submitted, task.id)
    /\ IF PopenRaises(task.command)
         THEN /\ ExecuteRaises(task)
              /\ pending' = "OSError"
              /\ pc' = "executor_cleanup"
              /\ event' = NoEvent
              /\ UNCHANGED child
         ELSE /\ ExecutePopen(task)
              /\ child' = task
              /\ pc' = "communicate"
              /\ UNCHANGED <<pending, event>>
    /\ UNCHANGED <<count, log, asyncVars>>

\* A variant of AsyncExecutor.run_task that puts the task twice.
AsyncRunTaskTwice(task) ==
    /\ submitted' = Append(submitted, task.id)
    /\ queue' = queue \o <<task, task>>
    /\ unfinished' = unfinished + 2
    /\ pc' = "read"
    /\ event' = NoEvent
    /\ count' = count + 1
    /\ UNCHANGED <<pending, log, started, finished, child, stopped, wpc, wtask>>

\* A variant of run_task on a queue of capacity one: put() waits for room.
AsyncRunTaskBounded(task) ==
    /\ Len(queue) < 1
    /\ submitted' = Append(submitted, task.id)
    /\ queue' = Append(queue, task)
    /\ unfinished' = unfinished + 1
    /\ pc' = "read"
    /\ event' = NoEvent
    /\ count' = count + 1
    /\ UNCHANGED <<pending, log, started, finished, child, stopped, wpc, wtask>>

\* AsyncExecutor.run_task(task): self.queue.put(task); handle() returns.
AsyncRunTask(task) ==
    /\ submitted' = Append(submitted, task.id)
    /\ queue' = Append(queue, task)
    /\ unfinished' = unfinished + 1
    /\ pc' = "read"
    /\ event' = NoEvent
    /\ count' = count + 1
    /\ UNCHANGED <<pending, log, started, finished, child, stopped, wpc, wtask>>

\* A variant of the call that passes the first event read, not the current.
HandleArgStale == IF yielded = <<>> THEN event ELSE yielded[1]

\* self.executor.handle(event) in Loop.loop(): the argument is the event the
\* for statement has just bound.
HandleArg == event

\* BaseCommandExecutor.handle(event), called by the for loop of Loop.loop().
Handle ==
    /\ pc = "handle"
    /\ ~IsPrinting
    /\ handled' = Append(handled, HandleArg)
    /\ LET key == EventKey(HandleArg)
       IN  IF key \notin DOMAIN command_map
             THEN /\ HandleNotFound(key)
                  /\ pc' = "read"
                  /\ event' = NoEvent
                  /\ count' = count + 1
                  /\ UNCHANGED <<pending, submitted, started, finished, child,
                                 asyncVars>>
             ELSE /\ LET task == Task(Len(handled) + 1, key, HandleArg,
                                      command_map[key])
                     IN  IF IsBlocking THEN BlockingRunTask(task)
                                       ELSE AsyncRunTask(task)
                  /\ UNCHANGED unmapped_events
    /\ UNCHANGED <<otherVars, exit, out, executor, exc, interrupts, yielded, calls>>

\* BlockingExcutor: the rest of runner.execute(task) in the main thread;
\* then run_task() and handle() return and the loop counts the event.
Communicate ==
    /\ pc = "communicate"
    /\ ExecuteCommunicate(child)
    /\ child' = NoTask
    /\ pc' = "read"
    /\ event' = NoEvent
    /\ count' = count + 1
    /\ UNCHANGED <<otherVars, exit, out, executor, pending, exc, interrupts, yielded, handled, calls,
                   unmapped_events, submitted, asyncVars>>

\* ------------------------------------------------------------- Loop.loop
\* self.reader.setup()
ReaderSetup ==
    /\ pc = "reader_setup"
    /\ calls' = Append(calls, "reader.setup")
    /\ pc' = "executor_setup"
    /\ UNCHANGED <<otherVars, exit, out, executor, event, pending, exc, interrupts, yielded, handled,
                   count, cmdVars, asyncVars>>

\* A variant of setup that starts a worker for every slot, whatever nb_jobs.
ExecutorSetupAllWorkers ==
    /\ pc = "executor_setup"
    /\ ~IsPrinting
    /\ calls' = Append(calls, "executor.setup")
    /\ wpc' = [w \in Workers |->
                 IF IsAsync THEN "check" ELSE wpc[w]]
    /\ pc' = "read"
    /\ UNCHANGED <<otherVars, exit, out, executor, event, pending, exc, interrupts, yielded, handled,
                   count, cmdVars, queue, unfinished, stopped, wtask>>

\* self.executor.setup(): BaseExecutor.setup does nothing;
\* AsyncExecutor.setup starts nb_jobs worker threads.
ExecutorSetup ==
    /\ pc = "executor_setup"
    /\ ~IsPrinting
    /\ calls' = Append(calls, "executor.setup")
    /\ wpc' = [w \in Workers |->
                 IF IsAsync /\ w <= executor.nb_jobs THEN "check" ELSE wpc[w]]
    /\ pc' = "read"
    /\ UNCHANGED <<otherVars, exit, out, executor, event, pending, exc, interrupts, yielded, handled,
                   count, cmdVars, queue, unfinished, stopped, wtask>>

\* for event in self.reader.read(): the reader yields its next event.
ReadYield ==
    /\ pc = "read"
    /\ Len(yielded) < MaxEvents
    /\ \E e \in Events :
          /\ yielded' = Append(yielded, e)
          /\ event' = e
    /\ pc' = "handle"
    /\ UNCHANGED <<otherVars, exit, out, executor, pending, exc, interrupts, handled, calls, count,
                   cmdVars, asyncVars>>

\* for event in self.reader.read(): the reader is exhausted; the try block
\* ends and the finally block starts.
ReadEnd ==
    /\ pc = "read"
    /\ pc' = "executor_cleanup"
    /\ UNCHANGED <<otherVars, exit, out, executor, event, pending, exc, interrupts, yielded, handled,
                   calls, count, cmdVars, asyncVars>>

\* The program points of loop() inside its try block.
TryPcs == {"read", "handle", "communicate"}
\* The program points of loop() where it has not ended.
LivePcs == {"reader_setup", "executor_setup", "read", "handle", "communicate",
            "executor_cleanup", "join", "reader_cleanup"}

\* A variant of loop() without its except KeyboardInterrupt clause: the
\* interrupt becomes the exception in flight while the finally block runs.
InterruptUncaught ==
    /\ pc \in LivePcs
    /\ interrupts' = Append(interrupts, pc)
    /\ IF pc \in TryPcs
         THEN /\ pc' = "executor_cleanup"
              /\ pending' = "KeyboardInterrupt"
              /\ UNCHANGED exc
         ELSE /\ pc' = "raised"
              /\ exc' = "KeyboardInterrupt"
              /\ UNCHANGED pending
    /\ event' = NoEvent
    /\ UNCHANGED <<otherVars, exit, out, executor, yielded, handled, calls, count, cmdVars, asyncVars>>

\* A KeyboardInterrupt raised in the main thread.  Inside the try block it is
\* caught (except KeyboardInterrupt: pass) and the finally block starts;
\* anywhere else in loop() it leaves loop().
Interrupt ==
    /\ pc \in LivePcs
    /\ interrupts' = Append(interrupts, pc)
    /\ IF pc \in TryPcs
         THEN /\ pc' = "executor_cleanup"
              /\ UNCHANGED exc
         ELSE /\ pc' = "raised"
              /\ exc' = "KeyboardInterrupt"
    /\ event' = NoEvent
    /\ UNCHANGED <<otherVars, exit, out, executor, pending, yielded, handled, calls, count, cmdVars,
                   asyncVars>>

\* finally: self.executor.cleanup().  BaseExecutor.cleanup does nothing;
\* AsyncExecutor.cleanup sets the stop signal, then waits in queue.join().
ExecutorCleanup ==
    /\ pc = "executor_cleanup"
    /\ ~IsPrinting
    /\ calls' = Append(calls, "executor.cleanup")
    /\ IF IsAsync
         THEN /\ stopped' = TRUE
              /\ pc' = "join"
         ELSE /\ pc' = "reader_cleanup"
              /\ UNCHANGED stopped
    /\ UNCHANGED <<otherVars, exit, out, executor, event, pending, exc, interrupts, yielded, handled,
                   count, cmdVars, queue, unfinished, wpc, wtask>>

\* A variant of queue.join() that waits for the queue to be empty only, not
\* for the tasks in flight.
JoinReturnWhenEmpty ==
    /\ pc = "join"
    /\ queue = <<>>
    /\ pc' = "reader_cleanup"
    /\ UNCHANGED <<otherVars, exit, out, executor, event, pending, exc, interrupts, yielded, handled,
                   calls, count, cmdVars, asyncVars>>

\* AsyncExecutor.cleanup: self.queue.join() returns once every task put on
\* the queue has been marked done.
JoinReturn ==
    /\ pc = "join"
    /\ unfinished = 0
    /\ pc' = "reader_cleanup"
    /\ UNCHANGED <<otherVars, exit, out, executor, event, pending, exc, interrupts, yielded, handled,
                   calls, count, cmdVars, asyncVars>>

\* finally: self.reader.cleanup(); then the exception in flight, if any,
\* leaves loop(), or loop() logs the count and returns.
ReaderCleanup ==
    /\ pc = "reader_cleanup"
    /\ calls' = Append(calls, "reader.cleanup")
    /\ IF pending = "none"
         THEN /\ pc' = "returned"
              /\ log' = Append(log, <<"info", "handled", count>>)
              /\ UNCHANGED exc
         ELSE /\ pc' = "raised"
              /\ exc' = pending
              /\ UNCHANGED log
    /\ UNCHANGED <<otherVars, exit, out, executor, event, pending, interrupts, yielded, handled,
                   count, unmapped_events, submitted, started, finished, child,
                   asyncVars>>

\* ------------------------------------------------------ PrintingExecutor
\* self.out.write(s)
Write(o, s) == [o EXCEPT !.buffer = @ \o s]

\* self.out.flush()
Flush(o) == [o EXCEPT !.content = @ \o o.buffer, !.buffer = ""]

\* self.out.close(): flushes, then closes; closing a closed file does nothing.
Close(o) == [Flush(o) EXCEPT !.closed = TRUE]

\* PrintingExecutor.format_event(event): event.key().
FormatEvent(e) == EventKey(e)

\* A variant of PrintingExecutor.handle(event) without its flush().
PrintingHandleOutNoFlush(o, e) == Write(Write(o, FormatEvent(e)), end_line)

\* The body of PrintingExecutor.handle(event), as the value of self.out.
PrintingHandleOut(o, e) == Flush(Write(Write(o, FormatEvent(e)), end_line))

\* PrintingExecutor.cleanup() raises AttributeError when self.out is None
\* (None is not sys.stdout, and None has no close()).
PrintingCleanupRaises(o) == o.obj = "None"

\* PrintingExecutor.cleanup(), as the value of self.out.
PrintingCleanupOut(o) == IF o.obj = "stdout" THEN o ELSE Close(o)

\* PrintingExecutor.setup(), as the outcomes it can have: self.out is
\* sys.stdout for '-'; else open(self.out_filename, 'w') gives a new, empty
\* file, or raises IOError and leaves self.out as it was.
PrintingSetupOutcomes(out_filename, o) ==
    IF out_filename = "-"
      THEN {[out |-> [o EXCEPT !.obj = "stdout"], raised |-> "none"]}
      ELSE {[out |-> [NoOut EXCEPT !.obj = "file"], raised |-> "none"],
            [out |-> o, raised |-> "IOError"]}

\* self.executor.setup() of a PrintingExecutor; an exception leaves loop(),
\* which has not entered its try block.
PrintingSetup ==
    /\ pc = "executor_setup"
    /\ IsPrinting
    /\ calls' = Append(calls, "executor.setup")
    /\ \E r \in PrintingSetupOutcomes(executor.out_filename, out) :
          /\ out' = r.out
          /\ IF r.raised = "none"
               THEN pc' = "read" /\ UNCHANGED exc
               ELSE pc' = "raised" /\ exc' = r.raised
    /\ UNCHANGED <<otherVars, exit, executor, event, pending, interrupts,
                   yielded, handled, count, cmdVars, asyncVars>>

\* PrintingExecutor.handle(event), called by the for loop of Loop.loop():
\* write the key, write the end of line, flush.
PrintingHandle ==
    /\ pc = "handle"
    /\ IsPrinting
    /\ handled' = Append(handled, HandleArg)
    /\ out' = PrintingHandleOut(out, HandleArg)
    /\ pc' = "read"
    /\ event' = NoEvent
    /\ count' = count + 1
    /\ UNCHANGED <<otherVars, exit, executor, pending, exc, interrupts,
                   yielded, calls, cmdVars, asyncVars>>

\* finally: self.executor.cleanup() of a PrintingExecutor.  An exception of
\* cleanup() leaves the finally block, and loop(), at once.
PrintingCleanup ==
    /\ pc = "executor_cleanup"
    /\ IsPrinting
    /\ calls' = Append(calls, "executor.cleanup")
    /\ IF PrintingCleanupRaises(out)
         THEN /\ pc' = "raised"
              /\ exc' = "AttributeError"
              /\ UNCHANGED out
         ELSE /\ pc' = "reader_cleanup"
              /\ out' = PrintingCleanupOut(out)
              /\ UNCHANGED exc
    /\ UNCHANGED <<otherVars, exit, executor, event, pending, interrupts,
                   yielded, handled, count, cmdVars, asyncVars>>

\* ------------------------------------------------------------- Setup.run
\* executors.COMMANDS_SECTION
COMMANDS_SECTION == "commands"

\* The files --action-commands may name.
CommandFiles == {"commands.ini", "nosection.ini", "unreadable.ini"}

\* The sections the parser holds after cp.read(filename): read() skips a
\* file it cannot open, without an error.
SectionsRead(filename) ==
    IF filename = "commands.ini" THEN {"commands"}
    ELSE IF filename = "nosection.ini" THEN {"other"}
    ELSE {}

\* read_command_map(filename): cp.items(COMMANDS_SECTION) raises
\* NoSectionError when the parser holds no such section.
ReadCommandMapRaises(filename) == COMMANDS_SECTION \notin SectionsRead(filename)

\* The process ends on an exception nothing caught: the interpreter prints
\* the traceback on standard error and exits with status 1.
Uncaught(e) ==
    [status |-> "exited", code |-> 1, traceback |-> FALSE,
     stderr |-> <<"Traceback (most recent call last):", "  File ...", e>>]

\* A variant of Setup.error that exits with its default code whatever the
\* caller asked for.
ErrorDefaultCode(message, code, tb) ==
    [status |-> "exited", code |-> 1, traceback |-> tb,
     stderr |-> <<"Error: " \o message>>]

\* Setup.error(message, code): one line on standard error, sys.exit(code).
Error(message, code, tb) ==
    [status |-> "exited", code |-> code, traceback |-> tb,
     stderr |-> <<"Error: " \o message>>]

\* Setup.run up to runner.loop(): make_runner builds the reader, then the
\* executor; for run_sync and run_async make_executor reads the command map
\* first.  Nothing catches an exception here: the try block of run() holds
\* runner.loop() only.
MakeRunner ==
    /\ pc = "make_runner"
    /\ IF IsPrinting
         THEN /\ pc' = "reader_setup"
              /\ UNCHANGED exit
         ELSE \E filename \in CommandFiles :
                 IF ReadCommandMapRaises(filename)
                   THEN /\ pc' = "config_error"
                        /\ exit' = Uncaught("NoSectionError")
                   ELSE /\ pc' = "reader_setup"
                        /\ UNCHANGED exit
    /\ UNCHANGED <<otherVars, out, executor, event, pending, exc, interrupts,
                   yielded, handled, calls, count, cmdVars, asyncVars>>

\* Setup.run after runner.loop(): the process ends with status 0 when loop()
\* returned; except Exception catches what loop() raised, but not a
\* KeyboardInterrupt, and reports it with self.error(..., 2) unless
\* args.traceback is set, in which case it raises it again.
Exit ==
    /\ pc \in {"returned", "raised"}
    /\ exit = NoExit
    /\ IF pc = "returned"
         THEN exit' = [status |-> "exited", code |-> 0, traceback |-> FALSE,
                       stderr |-> <<>>]
         ELSE IF exc = "KeyboardInterrupt"
                THEN exit' = Uncaught(exc)
                ELSE \E traceback \in BOOLEAN :
                        exit' = IF traceback
                                  THEN [Uncaught(exc) EXCEPT !.traceback = TRUE]
                                  ELSE Error(exc \o ": " \o exc, 2, FALSE)
    /\ UNCHANGED <<otherVars, out, executor, loopVars, cmdVars, asyncVars>>

\* A variant of the stop check that never sees the signal: the worker goes
\* on to queue.get().
WorkerCheckIgnoresStop(w) ==
    /\ pc \in LivePcs
    /\ wpc[w] = "check"
    /\ wpc' = [wpc EXCEPT ![w] = "get"]
    /\ UNCHANGED <<otherVars, exit, out, executor, loopVars, cmdVars, queue, unfinished, stopped,
                   wtask>>

\* ------------------------------------------------------- AsyncWorker.run
\* The workers are daemon threads (thread.daemon = True): they run only
\* while the main thread does, that is until loop() ends.
\* while True: if self.stopped.is_set(): break
WorkerCheck(w) ==
    /\ pc \in LivePcs
    /\ wpc[w] = "check"
    /\ wpc' = [wpc EXCEPT ![w] = IF stopped THEN "exited" ELSE "get"]
    /\ UNCHANGED <<otherVars, exit, out, executor, loopVars, cmdVars, queue, unfinished, stopped,
                   wtask>>

\* A variant of queue.get() that reads the head of the queue and leaves it
\* there.
WorkerGetPeek(w) ==
    /\ pc \in LivePcs
    /\ wpc[w] = "get"
    /\ queue # <<>>
    /\ wtask' = [wtask EXCEPT ![w] = Head(queue)]
    /\ wpc' = [wpc EXCEPT ![w] = "execute"]
    /\ UNCHANGED <<otherVars, exit, out, executor, loopVars, cmdVars, queue, unfinished, stopped>>

\* A variant of queue.get() on a LIFO queue: the worker takes the task put
\* last.
WorkerGetLast(w) ==
    /\ pc \in LivePcs
    /\ wpc[w] = "get"
    /\ queue # <<>>
    /\ wtask' = [wtask EXCEPT ![w] = queue[Len(queue)]]
    /\ queue' = SubSeq(queue, 1, Len(queue) - 1)
    /\ wpc' = [wpc EXCEPT ![w] = "execute"]
    /\ UNCHANGED <<otherVars, exit, out, executor, loopVars, cmdVars, unfinished, stopped>>

\* task = self.queue.get(): blocks while the queue is empty.
WorkerGet(w) ==
    /\ pc \in LivePcs
    /\ wpc[w] = "get"
    /\ queue # <<>>
    /\ wtask' = [wtask EXCEPT ![w] = Head(queue)]
    /\ queue' = Tail(queue)
    /\ wpc' = [wpc EXCEPT ![w] = "execute"]
    /\ UNCHANGED <<otherVars, exit, out, executor, loopVars, cmdVars, unfinished, stopped>>

\* A variant of AsyncWorker.run without its except clause: an exception of
\* execute() ends the thread (the finally clause still marks the task done).
WorkerExecuteDies(w) ==
    /\ pc \in LivePcs
    /\ wpc[w] = "execute"
    /\ IF PopenRaises(wtask[w].command)
         THEN /\ ExecuteRaises(wtask[w])
              /\ unfinished' = unfinished - 1
              /\ wtask' = [wtask EXCEPT ![w] = NoTask]
              /\ wpc' = [wpc EXCEPT ![w] = "exited"]
              /\ UNCHANGED log
         ELSE /\ ExecuteRun(wtask[w])
              /\ wpc' = [wpc EXCEPT ![w] = "task_done"]
              /\ UNCHANGED <<unfinished, wtask>>
    /\ UNCHANGED <<otherVars, exit, out, executor, loopVars, unmapped_events, submitted, child,
                   queue, stopped>>

\* try: self.runner.execute(task); except Exception: logger.exception(...).
\* A worker runs execute() in one step: no KeyboardInterrupt reaches a
\* worker thread while it waits for the child process, and execute() touches
\* nothing the other threads read before task_done().
WorkerExecute(w) ==
    /\ pc \in LivePcs
    /\ wpc[w] = "execute"
    /\ IF PopenRaises(wtask[w].command)
         THEN /\ ExecuteRaises(wtask[w])
              /\ log' = Append(log, <<"error", "exception", wtask[w].id>>)
         ELSE ExecuteRun(wtask[w])
    /\ wpc' = [wpc EXCEPT ![w] = "task_done"]
    /\ UNCHANGED <<otherVars, exit, out, executor, loopVars, unmapped_events, submitted, child,
                   queue, unfinished, stopped, wtask>>

\* finally: self.queue.task_done(); back to the head of the while loop.
WorkerTaskDone(w) ==
    /\ pc \in LivePcs
    /\ wpc[w] = "task_done"
    /\ unfinished' = unfinished - 1
    /\ wtask' = [wtask EXCEPT ![w] = NoTask]
    /\ wpc' = [wpc EXCEPT ![w] = "check"]
    /\ UNCHANGED <<otherVars, exit, out, executor, loopVars, cmdVars, queue, stopped>>

\* One step of worker thread w.
WorkerStep(w) ==
    \/ WorkerCheck(w)
    \/ WorkerGet(w)
    \/ WorkerExecute(w)
    \/ WorkerTaskDone(w)

\* ----------------------------------------------------------- specification
Next ==
    \/ MakeRunner
    \/ ReaderSetup
    \/ ExecutorSetup
    \/ PrintingSetup
    \/ PrintingHandle
    \/ PrintingCleanup
    \/ Exit
    \/ ReadYield
    \/ ReadEnd
    \/ Handle
    \/ Communicate
    \/ Interrupt
    \/ ExecutorCleanup
    \/ JoinReturn
    \/ ReaderCleanup
    \/ \E w \in Workers : WorkerCheck(w)
    \/ \E w \in Workers : WorkerGet(w)
    \/ \E w \in Workers : WorkerExecute(w)
    \/ \E w \in Workers : WorkerTaskDone(w)

Spec == Init /\ [][Next]_vars

\* The fair specification: every worker thread that can take a step
\* eventually does (the threads are scheduled by the interpreter), and a
\* queue.join() that can return does.
FairSpec ==
    /\ Spec
    /\ \A w \in Workers : WF_vars(WorkerStep(w))
    /\ WF_vars(JoinReturn)

\* ------------------------------------------------------------------ helpers
\* The number of places of sequence q that hold x.
Count(q, x) == Cardinality({i \in 1..Len(q) : q[i] = x})

\* p is a prefix of q.
IsPrefix(p, q) ==
    /\ Len(p) <= Len(q)
    /\ \A i \in 1..Len(p) : p[i] = q[i]

\* The ids of the sequence of tasks q.
Ids(q) == [i \in 1..Len(q) |-> q[i].id]

\* The workers that hold task id and have not begun to execute it.
HoldersBefore(id) == {w \in Workers : wtask[w].id = id /\ wpc[w] = "execute"}

\* The workers that hold task id.
Holders(id) == {w \in Workers : wtask[w].id = id}

\* The tasks that exist: queued, held by a worker, or waited on inline.
LiveTasks ==
    {queue[i] : i \in 1..Len(queue)}
      \cup {wtask[w] : w \in {v \in Workers : wtask[v] # NoTask}}
      \cup (IF child = NoTask THEN {} ELSE {child})

\* The ids of the handle() calls so far.
HandleIds == 1..Len(handled)

\* ------------------------------------------------------------------ claims

\* C1: when AsyncExecutor.cleanup() returns (queue.join() has returned and
\* loop() goes on to reader.cleanup()), every task that handle() enqueued has
\* finished executing: none is still queued, none is held by a worker.
C1_AsyncDrainedAtCleanupReturn ==
    (IsAsync /\ pc = "reader_cleanup") =>
        /\ queue = <<>>
        /\ \A w \in Workers : wtask[w] = NoTask
        /\ \A i \in 1..Len(submitted) : Count(finished, submitted[i]) >= 1

\* C1 witness: cleanup() of an executor with two jobs has returned after two
\* tasks were enqueued.
C1_Witness ==
    /\ IsAsync
    /\ executor.nb_jobs = 2
    /\ pc = "reader_cleanup"
    /\ Len(submitted) = 2

\* C2: once AsyncExecutor.cleanup() waits in queue.join(), it eventually
\* returns (or the wait is interrupted by the user), under fair scheduling of
\* the workers.
C2_CleanupEventuallyReturns ==
    (pc = "join") ~> (pc = "reader_cleanup" \/ exc = "KeyboardInterrupt")

\* C3: each task is dequeued and executed at most once: it is in the queue,
\* or held by one worker that has not begun it, or has begun once, and never
\* two of these.
C3_NoDuplicatedWork ==
    \A id \in HandleIds :
        /\ Count(Ids(queue), id) + Cardinality(HoldersBefore(id))
              + Count(started, id) <= 1
        /\ Cardinality(Holders(id)) <= 1
        /\ Count(finished, id) <= 1

\* C3 witness: two workers hold the two tasks at the same time, the second
\* not yet begun, the first executed and not yet marked done.
C3_Witness ==
    /\ IsAsync
    /\ wpc[1] = "execute"
    /\ wpc[2] = "task_done"
    /\ wtask[1].id = 2
    /\ wtask[2].id = 1

\* C4: when the only KeyboardInterrupt so far was raised while reading or
\* handling an event, loop() has raised nothing: it is in its finally block
\* or has returned, and it returns only after executor.cleanup() followed by
\* reader.cleanup().
C4_InterruptEndsLoopCleanly ==
    (Len(interrupts) = 1 /\ interrupts[1] \in TryPcs) =>
        /\ exc = "none"
        /\ pending = "none"
        /\ pc \in {"executor_cleanup", "join", "reader_cleanup", "returned"}
        /\ pc \in {"join", "reader_cleanup"} =>
              calls = <<"reader.setup", "executor.setup", "executor.cleanup">>
        /\ pc = "returned" =>
              calls = <<"reader.setup", "executor.setup", "executor.cleanup",
                        "reader.cleanup">>

\* C4 witness: loop() has returned after an interrupt of a running command.
C4_Witness ==
    /\ pc = "returned"
    /\ interrupts = <<"communicate">>

\* C5: the events passed to handle() are a prefix of the events read() has
\* yielded, place by place, and an event is read only when every earlier one
\* was handled and its handle() has returned.
C5_DispatchOrder ==
    /\ IsPrefix(handled, yielded)
    /\ Len(yielded) <= Len(handled) + 1
    /\ pc = "handle" =>
          /\ Len(yielded) = Len(handled) + 1
          /\ count = Len(handled)
          /\ child = NoTask
          /\ event = yielded[Len(yielded)]

\* C5 witness: two different events were read and handled.
C5_Witness ==
    /\ Len(handled) = 2
    /\ handled[1] # handled[2]
    /\ pc = "read"

\* C6: with the blocking executor the commands start in the order of their
\* events (increasing task ids, every submitted task), at most one command
\* runs at a time, and handle() has returned only when its command finished.
C6_BlockingStrictOrder ==
    IsBlocking =>
        /\ started = submitted
        /\ \A i, j \in 1..Len(started) : i < j => started[i] < started[j]
        /\ IsPrefix(finished, started)
        /\ Len(started) <= Len(finished) + 1
        /\ pc \in {"read", "handle"} => finished = started
        /\ count <= Len(handled)
        /\ Len(started) > Len(finished) => child.id = started[Len(started)]

\* C6 witness: the blocking executor ran two commands to their end.
C6_Witness ==
    /\ IsBlocking
    /\ Len(finished) = 2
    /\ pc = "read"

\* C7: with a command executor, a key absent from the command map has
\* exactly one 'unmapped event' log record when it was handled at least once,
\* and none otherwise.
C7_UnmappedLoggedOnce ==
    (IsBlocking \/ IsAsync) =>
    \A e \in Events :
        EventKey(e) \notin DOMAIN command_map =>
            Count(log, <<"info", "unmapped", EventKey(e)>>) =
                IF \E i \in HandleIds : EventKey(handled[i]) = EventKey(e)
                  THEN 1 ELSE 0

\* C7 witness: the same unmapped key was handled twice.
C7_Witness ==
    /\ IsBlocking \/ IsAsync
    /\ Len(handled) = 2
    /\ EventKey(handled[1]) \notin DOMAIN command_map
    /\ handled[2] = handled[1]
    /\ pc = "read"

\* C8: with a command executor, a handled event whose key is mapped was
\* submitted exactly once, with the mapped command: it is queued, held or
\* begun exactly once; an event whose key is not mapped was never submitted,
\* queued or begun.
C8_CommandLookup ==
    (IsBlocking \/ IsAsync) =>
    /\ \A id \in HandleIds :
          LET n == Count(Ids(queue), id) + Cardinality(HoldersBefore(id))
                     + Count(started, id)
          IN  IF EventKey(handled[id]) \in DOMAIN command_map
                THEN Count(submitted, id) = 1 /\ n = 1
                ELSE Count(submitted, id) = 0 /\ n = 0
    /\ \A t \in LiveTasks :
          /\ t.id \in HandleIds
          /\ t.event = handled[t.id]
          /\ t.key = EventKey(t.event)
          /\ t.command = command_map[t.key]

\* C8 witness: a mapped event and an unmapped event were handled.
C8_Witness ==
    /\ IsBlocking \/ IsAsync
    /\ Len(handled) = 2
    /\ EventKey(handled[1]) \in DOMAIN command_map
    /\ EventKey(handled[2]) \notin DOMAIN command_map
    /\ Len(submitted) = 1
    /\ pc = "read"

\* C9: with the blocking executor a command that exits non-zero or fails to
\* launch never ends the loop: handle() raises nothing.
C9_BlockingFailureNeverEndsLoop ==
    IsBlocking => (pending = "none" /\ exc # "OSError")

\* C10: in a worker a task whose execution raises is logged, nothing is
\* propagated to loop(), the queue counts the task done exactly once (the
\* unfinished count is the tasks queued plus the tasks held), and the worker
\* lives on: a worker exits only on the stop signal.
C10_WorkerSurvivesFailure ==
    IsAsync =>
        /\ pending = "none"
        /\ exc # "OSError"
        /\ unfinished =
              Len(queue) + Cardinality({w \in Workers : wtask[w] # NoTask})
        /\ \A w \in Workers : wpc[w] = "exited" => stopped
        /\ \A id \in HandleIds :
              (Count(finished, id) >= 1
                 /\ PopenRaises(command_map[EventKey(handled[id])])) =>
                  Count(log, <<"error", "exception", id>>) = 1

\* C10 witness: the single worker has finished a task after one that raised.
C10_Witness ==
    /\ IsAsync
    /\ executor.nb_jobs = 1
    /\ Count(log, <<"error", "exception", 1>>) = 1
    /\ Count(finished, 2) = 1
    /\ wpc[1] = "check"


\* ------------------------------------------------- Setup.run: the exit
\* The exceptions except Exception catches: KeyboardInterrupt is none.
Exceptions == {"OSError", "IOError", "AttributeError"}

\* C18: when the process has ended after loop() returned (end of input, or an
\* interrupt caught inside the try block) its status is 0 and standard error
\* is empty; when it has ended on an Exception loop() raised and --traceback
\* is not set, standard error holds the one line 'Error: ...' and the status
\* is 2.  Without an exception and past make_runner the process ends only
\* after loop() returned.
C18_ExitBehaviour ==
    exit.status = "exited" =>
        /\ pc = "returned" => (exit.code = 0 /\ exit.stderr = <<>>)
        /\ (pc = "raised" /\ exc \in Exceptions /\ ~exit.traceback) =>
              /\ exit.code = 2
              /\ exit.stderr = <<"Error: " \o exc \o ": " \o exc>>
        /\ (exc = "none" /\ pc # "config_error") =>
              (pc = "returned" /\ pending = "none")

\* C18 witness: the process has ended with status 2 on an error of a command
\* or of the output file, after ending with status 0 was possible too.
C18_Witness ==
    /\ exit.status = "exited"
    /\ pc = "raised"
    /\ exc \in Exceptions
    /\ exit.code = 2
    /\ Len(exit.stderr) = 1

\* C19: when read_command_map failed the process has ended with a non-zero
\* status and a one-line diagnostic, and no setup() or handle() was called.
C19_ConfigErrorOneLine ==
    pc = "config_error" =>
        /\ exit.status = "exited"
        /\ exit.code # 0
        /\ Len(exit.stderr) = 1
        /\ calls = <<>>
        /\ handled = <<>>

\* What the sink holds after the events h were printed, in order.
RECURSIVE PrintedLines(_)
PrintedLines(h) ==
    IF h = <<>> THEN ""
    ELSE PrintedLines(SubSeq(h, 1, Len(h) - 1))
            \o EventKey(h[Len(h)]) \o end_line

\* C20: with the printing executor, whenever handle() has returned the sink
\* holds exactly key(e1)+end_line ... key(en)+end_line for the events handled
\* so far, in order, and nothing written is left unflushed.
C20_PrintedOutput ==
    IsPrinting =>
        /\ out.content = PrintedLines(handled)
        /\ out.buffer = ""

\* C20 witness: two different events were printed to a named file.
C20_Witness ==
    /\ IsPrinting
    /\ out.obj = "file"
    /\ Len(handled) = 2
    /\ handled[1] # handled[2]
    /\ pc = "read"


\* ------------------------------------------ EvdevDirReader: the devices
\* The paths of the watched directory, in the order list_devices gives them.
Paths == <<"event0", "event1">>
PathSet == {Paths[i] : i \in DOMAIN Paths}

\* EvdevDirReader.__init__: no device, an observer not started.  handles
\* holds every evdev.InputDevice the reader opened, devices maps a path to
\* the index of its handle.
NoDir(exclusive) ==
    [exclusive |-> exclusive, devices |-> <<>>, handles |-> <<>>,
     observer |-> "new"]

\* _open_device(path), and device.grab() when asked for.
OpenDevice(path, grab) == [path |-> path, closed |-> FALSE, grabbed |-> grab]

\* self.devices[device_path] = device
SetDevice(d, path) ==
    [q \in (DOMAIN d.devices) \cup {path} |->
        IF q = path THEN Len(d.handles) + 1 ELSE d.devices[q]]

\* self.devices.pop(device_path): the mapping without the path.
PopDevice(d, path) ==
    [q \in (DOMAIN d.devices) \ {path} |-> d.devices[q]]

\* EvdevDirReader.register_device(device_path), as the outcomes it can have;
\* is_device is what evdev.util.is_device(device_path) answers.  Opening the
\* device may raise OSError; device.grab() may raise IOError, and then the
\* device stays open and is not in the mapping.
RegisterDevice(d, path, is_device) ==
    IF ~is_device
      THEN {[dir |-> d, raised |-> "none"]}
      ELSE {[dir |-> [d EXCEPT
                        !.handles = Append(@, OpenDevice(path, d.exclusive)),
                        !.devices = SetDevice(d, path)],
             raised |-> "none"],
            [dir |-> d, raised |-> "OSError"]}
           \cup
           (IF d.exclusive
              THEN {[dir |-> [d EXCEPT
                               !.handles = Append(@, OpenDevice(path, FALSE))],
                     raised |-> "IOError"]}
              ELSE {})

\* A variant of unregister_device that looks the path up with
\* self.devices[device_path]: an unknown path raises KeyError.
UnregisterDeviceStrict(d, path) ==
    IF path \in DOMAIN d.devices
      THEN [dir |-> [d EXCEPT
                       !.devices = PopDevice(d, path),
                       !.handles[d.devices[path]].closed = TRUE,
                       !.handles[d.devices[path]].grabbed = FALSE],
            raised |-> "none"]
      ELSE [dir |-> d, raised |-> "KeyError"]

\* EvdevDirReader.unregister_device(device_path): pop the path, with None for
\* an unknown one; close the device popped, which also ungrabs it.
UnregisterDevice(d, path) ==
    IF path \in DOMAIN d.devices
      THEN [dir |-> [d EXCEPT
                       !.devices = PopDevice(d, path),
                       !.handles[d.devices[path]].closed = TRUE,
                       !.handles[d.devices[path]].grabbed = FALSE],
            raised |-> "none"]
      ELSE [dir |-> d, raised |-> "none"]

\* for device in ...: self.register_device(device), over the paths ps that
\* are device nodes: the outcomes; the first exception ends the loop.
RECURSIVE RegisterAll(_, _)
RegisterAll(d, ps) ==
    IF ps = <<>>
      THEN {[dir |-> d, raised |-> "none"]}
      ELSE UNION { IF r.raised = "none"
                     THEN RegisterAll(r.dir, Tail(ps))
                     ELSE {r} : r \in RegisterDevice(d, Head(ps), TRUE) }

\* for device_path in list(self.devices.keys()): self.unregister_device(...)
RECURSIVE UnregisterAll(_, _)
UnregisterAll(d, ps) ==
    IF ps = <<>>
      THEN [dir |-> d, raised |-> "none"]
      ELSE LET r == UnregisterDevice(d, Head(ps))
           IN  IF r.raised = "none" THEN UnregisterAll(r.dir, Tail(ps)) ELSE r

\* The paths of a set, in the order of Paths.
InOrder(S) == SelectSeq(Paths, LAMBDA q : q \in S)

\* EvdevDirReader.setup(), as the outcomes it can have when the directory
\* holds the device nodes ns: register them, then start the observer, which
\* raises RuntimeError when it was started before.
EvdevDirReaderSetup(d, ns) ==
    UNION { IF r.raised # "none" THEN {r}
            ELSE IF r.dir.observer = "new"
              THEN {[dir |-> [r.dir EXCEPT !.observer = "started"],
                     raised |-> "none"]}
              ELSE {[dir |-> r.dir, raised |-> "RuntimeError"]}
          : r \in RegisterAll(d, InOrder(ns)) }

\* EvdevDirReader.cleanup(): stop the observer, unregister every device.
EvdevDirReaderCleanup(d) ==
    UnregisterAll([d EXCEPT !.observer = "stopped"], InOrder(DOMAIN d.devices))

\* ------------------------------------------------- setup() and cleanup()
\* The number of setup() and cleanup() calls made on one object.
MaxOps == 3

\* LineReader.in_file before setup(): None.
NoFile == [obj |-> "None", closed |-> FALSE]

\* The readers and executors, as their constructors leave them.
\* EvdevReader.__init__ opens its device.
LifecycleObjects ==
    { [cls |-> "LineReader", in_filename |-> f, in_file |-> NoFile] :
         f \in {"-", "events.in"} } \cup
    { [cls |-> "PrintingExecutor", out_filename |-> f, out |-> NoOut] :
         f \in {"-", "events.out"} } \cup
    { [cls |-> "EvdevReader", exclusive |-> x,
       device |-> OpenDevice("event0", FALSE)] : x \in BOOLEAN } \cup
    { [cls |-> "EvdevDirReader", dir |-> NoDir(x)] : x \in BOOLEAN } \cup
    { [cls |-> "BlockingExcutor"] } \cup
    { [cls |-> "AsyncExecutor", nb_jobs |-> n, threads |-> 0,
       stopped |-> FALSE, unfinished_tasks |-> 0] : n \in 1..MaxJobs }

\* LineReader.setup(): sys.stdin for '-', else open(self.in_filename, 'r'),
\* which may raise IOError.
LineReaderSetup(o) ==
    IF o.in_filename = "-"
      THEN {[obj |-> [o EXCEPT !.in_file = [obj |-> "stdin", closed |-> FALSE]],
             raised |-> "none"]}
      ELSE {[obj |-> [o EXCEPT !.in_file = [obj |-> "file", closed |-> FALSE]],
             raised |-> "none"],
            [obj |-> o, raised |-> "IOError"]}

\* A variant of LineReader.cleanup() that forgets the file it closed
\* (self.in_file = None).
LineReaderCleanupForgets(o) ==
    IF o.in_filename = "-"
      THEN [obj |-> o, raised |-> "none"]
      ELSE IF o.in_file.obj = "None"
        THEN [obj |-> o, raised |-> "AttributeError"]
        ELSE [obj |-> [o EXCEPT !.in_file = NoFile], raised |-> "none"]

\* LineReader.cleanup(): self.in_file.close() unless the input is '-'; None
\* has no close().  Closing a closed file does nothing.
LineReaderCleanup(o) ==
    IF o.in_filename = "-"
      THEN [obj |-> o, raised |-> "none"]
      ELSE IF o.in_file.obj = "None"
        THEN [obj |-> o, raised |-> "AttributeError"]
        ELSE [obj |-> [o EXCEPT !.in_file.closed = TRUE], raised |-> "none"]

\* A variant of EvdevReader.setup() that never grabs the device.
EvdevReaderSetupNoGrab(o) == {[obj |-> o, raised |-> "none"]}

\* EvdevReader.setup(): self.device.grab() when exclusive; it raises IOError
\* when another process holds the device, OSError on a closed device.
EvdevReaderSetup(o) ==
    IF ~o.exclusive
      THEN {[obj |-> o, raised |-> "none"]}
      ELSE IF o.device.closed
        THEN {[obj |-> o, raised |-> "OSError"]}
        ELSE {[obj |-> [o EXCEPT !.device.grabbed = TRUE], raised |-> "none"],
              [obj |-> o, raised |-> "IOError"]}

\* EvdevReader.cleanup(): self.device.close(), which also ungrabs; closing a
\* closed device does nothing.
EvdevReaderCleanup(o) ==
    [obj |-> [o EXCEPT !.device.closed = TRUE, !.device.grabbed = FALSE],
     raised |-> "none"]

\* AsyncExecutor.setup(): start nb_jobs daemon threads.
AsyncExecutorSetup(o) ==
    {[obj |-> [o EXCEPT !.threads = @ + o.nb_jobs], raised |-> "none"]}

\* AsyncExecutor.cleanup(): self.stopped.set(); self.queue.join(), which
\* returns at once when no task is unfinished.
AsyncExecutorCleanup(o) ==
    [obj |-> [o EXCEPT !.stopped = TRUE], raised |-> "none"]

\* o.setup(): the outcomes, by class.  BaseExecutor.setup does nothing.
SetupOutcomes(o) ==
    CASE o.cls = "LineReader" -> LineReaderSetup(o)
      [] o.cls = "PrintingExecutor" ->
            {[obj |-> [o EXCEPT !.out = r.out], raised |-> r.raised] :
                r \in PrintingSetupOutcomes(o.out_filename, o.out)}
      [] o.cls = "EvdevReader" -> EvdevReaderSetup(o)
      [] o.cls = "EvdevDirReader" ->
            UNION {{[obj |-> [o EXCEPT !.dir = r.dir], raised |-> r.raised] :
                      r \in EvdevDirReaderSetup(o.dir, ns)} :
                   ns \in SUBSET PathSet}
      [] o.cls = "AsyncExecutor" -> AsyncExecutorSetup(o)
      [] OTHER -> {[obj |-> o, raised |-> "none"]}

\* o.cleanup(): the outcome, by class.  BaseExecutor.cleanup does nothing.
CleanupOutcome(o) ==
    CASE o.cls = "LineReader" -> LineReaderCleanup(o)
      [] o.cls = "PrintingExecutor" ->
            IF PrintingCleanupRaises(o.out)
              THEN [obj |-> o, raised |-> "AttributeError"]
              ELSE [obj |-> [o EXCEPT !.out = PrintingCleanupOut(o.out)],
                    raised |-> "none"]
      [] o.cls = "EvdevReader" -> EvdevReaderCleanup(o)
      [] o.cls = "EvdevDirReader" ->
            LET r == EvdevDirReaderCleanup(o.dir)
            IN  [obj |-> [o EXCEPT !.dir = r.dir], raised |-> r.raised]
      [] o.cls = "AsyncExecutor" -> AsyncExecutorCleanup(o)
      [] OTHER -> [obj |-> o, raised |-> "none"]

LifecycleInit ==
    /\ obj \in LifecycleObjects
    /\ ops = <<>>
    /\ RunIdle
    /\ DirIdle
    /\ ReaderIdle

\* A caller calls obj.setup().
CallSetup ==
    /\ obj.cls # "none"
    /\ Len(ops) < MaxOps
    /\ \E r \in SetupOutcomes(obj) :
          /\ obj' = r.obj
          /\ ops' = Append(ops, [op |-> "setup", raised |-> r.raised,
                                 obj |-> r.obj])
    /\ UNCHANGED <<runVars, dirVars, readerVars>>

\* A caller calls obj.cleanup().
CallCleanup ==
    /\ obj.cls # "none"
    /\ Len(ops) < MaxOps
    /\ LET r == CleanupOutcome(obj)
       IN  /\ obj' = r.obj
           /\ ops' = Append(ops, [op |-> "cleanup", raised |-> r.raised,
                                  obj |-> r.obj])
    /\ UNCHANGED <<runVars, dirVars, readerVars>>

LifecycleNext == CallSetup \/ CallCleanup

LifecycleSpec == LifecycleInit /\ [][LifecycleNext]_vars

\* setup() completed before call i.
SetUpBefore(i) ==
    \E j \in 1..(i - 1) : ops[j].op = "setup" /\ ops[j].raised = "none"

\* C11: on every reader and executor, a cleanup() called right after a
\* cleanup() that followed a successful setup() raises nothing and leaves the
\* object as the first cleanup() left it.
C11_CleanupIdempotent ==
    \A i \in 1..(Len(ops) - 1) :
        (/\ ops[i].op = "cleanup"
         /\ ops[i + 1].op = "cleanup"
         /\ SetUpBefore(i)) =>
            /\ ops[i + 1].raised = "none"
            /\ ops[i + 1].obj = ops[i].obj

\* C11 witness: a reader of a named file was set up, then cleaned up twice.
C11_Witness ==
    /\ obj.cls = "LineReader"
    /\ obj.in_filename # "-"
    /\ Len(ops) = 3
    /\ ops[1].op = "setup" /\ ops[1].raised = "none"
    /\ ops[2].op = "cleanup"
    /\ ops[3].op = "cleanup"
    /\ obj.in_file.closed

\* C12: a cleanup() called when no setup() has completed (never called, or
\* failed) raises nothing.
C12_CleanupWithoutSetup ==
    \A i \in 1..Len(ops) :
        (ops[i].op = "cleanup" /\ ~SetUpBefore(i)) => ops[i].raised = "none"


\* ----------------------------------- EvdevDirReader: read() and the watch
\* The number of devices one reader opens.
MaxHandles == 3
\* The number of changes of the directory waiting for delivery.
MaxWatch == 2

\* The handles of a set, in the order they were opened.
RECURSIVE HandleList(_)
HandleList(S) ==
    IF S = {} THEN <<>>
    ELSE LET m == CHOOSE x \in S : \A y \in S : x <= y
         IN  <<m>> \o HandleList(S \ {m})

\* list(self.devices.values())
DeviceValues(d) == {d.devices[q] : q \in DOMAIN d.devices}

\* The changes waiting that will ask for a device to be opened.
Creations == Len(SelectSeq(watch, LAMBDA c : c.type = "created"))

\* EvdevDirReader.__init__, in a directory holding some device nodes.
DirInit ==
    /\ dir \in {NoDir(x) : x \in BOOLEAN}
    /\ nodes \in SUBSET PathSet
    /\ watch = <<>>
    /\ rd = [pc |-> "setup", snapshot |-> {}, rlist |-> <<>>, device |-> 0]
    /\ last_call = [op |-> "none"]
    /\ RunIdle
    /\ LifecycleIdle
    /\ ReaderIdle

\* reader.setup(), called by loop() before it reads.
DirSetup ==
    /\ rd.pc = "setup"
    /\ \E r \in EvdevDirReaderSetup(dir, nodes) :
          /\ dir' = r.dir
          /\ rd' = [rd EXCEPT !.pc = IF r.raised = "none" THEN "loop"
                                     ELSE "raised"]
    /\ UNCHANGED <<nodes, watch, last_call, runVars, lifecycleVars, readerVars>>

\* A device node appears in the directory; a started observer will call
\* on_created.
NodeCreated(path) ==
    /\ path \notin nodes
    /\ Len(watch) < MaxWatch
    /\ Len(dir.handles) + Creations < MaxHandles
    /\ nodes' = nodes \cup {path}
    /\ watch' = IF dir.observer = "started"
                  THEN Append(watch, [type |-> "created", path |-> path])
                  ELSE watch
    /\ UNCHANGED <<dir, rd, last_call, runVars, lifecycleVars, readerVars>>

\* A device node disappears from the directory; a started observer will call
\* on_deleted.
NodeDeleted(path) ==
    /\ path \in nodes
    /\ Len(watch) < MaxWatch
    /\ nodes' = nodes \ {path}
    /\ watch' = IF dir.observer = "started"
                  THEN Append(watch, [type |-> "deleted", path |-> path])
                  ELSE watch
    /\ UNCHANGED <<dir, rd, last_call, runVars, lifecycleVars, readerVars>>

\* EventHandler.on_created, on the thread of the observer:
\* self.reader.register_device(event.src_path).  An exception ends the
\* thread.
OnCreated ==
    /\ dir.observer = "started"
    /\ watch # <<>>
    /\ Head(watch).type = "created"
    /\ LET path == Head(watch).path
       IN  \E r \in RegisterDevice(dir, path, path \in nodes) :
              /\ dir' = IF r.raised = "none" THEN r.dir
                        ELSE [r.dir EXCEPT !.observer = "dead"]
              /\ last_call' = [op |-> "register_device", path |-> path,
                               is_device |-> path \in nodes, before |-> dir,
                               after |-> r.dir, raised |-> r.raised]
    /\ watch' = Tail(watch)
    /\ UNCHANGED <<nodes, rd, runVars, lifecycleVars, readerVars>>

\* EventHandler.on_deleted, on the thread of the observer:
\* self.reader.unregister_device(event.src_path).
OnDeleted ==
    /\ dir.observer = "started"
    /\ watch # <<>>
    /\ Head(watch).type = "deleted"
    /\ LET path == Head(watch).path
           r == UnregisterDevice(dir, path)
       IN  /\ dir' = IF r.raised = "none" THEN r.dir
                     ELSE [r.dir EXCEPT !.observer = "dead"]
           /\ last_call' = [op |-> "unregister_device", path |-> path,
                            known |-> path \in DOMAIN dir.devices,
                            before |-> dir, after |-> r.dir,
                            raised |-> r.raised]
    /\ watch' = Tail(watch)
    /\ UNCHANGED <<nodes, rd, runVars, lifecycleVars, readerVars>>

\* read(): select.select(list(self.devices.values()), [], [], 5) is called
\* and waits.
ReadSelect ==
    /\ rd.pc = "loop"
    /\ rd' = [rd EXCEPT !.pc = "select", !.snapshot = DeviceValues(dir)]
    /\ UNCHANGED <<dir, nodes, watch, last_call, runVars, lifecycleVars,
                   readerVars>>

\* read(): select returns the devices that are ready, or none after 5 s.
ReadSelectReturn ==
    /\ rd.pc = "select"
    /\ \E ready \in SUBSET rd.snapshot :
          rd' = [rd EXCEPT !.pc = "iterate", !.rlist = HandleList(ready)]
    /\ UNCHANGED <<dir, nodes, watch, last_call, runVars, lifecycleVars,
                   readerVars>>

\* read(): for device in rlist: if evdev.util.is_device(device.path); the
\* while loop goes on when rlist is exhausted.
ReadNext ==
    /\ rd.pc = "iterate"
    /\ IF rd.rlist = <<>>
         THEN rd' = [rd EXCEPT !.pc = "loop", !.snapshot = {}, !.device = 0]
         ELSE rd' = [rd EXCEPT
                       !.rlist = Tail(@),
                       !.device = Head(rd.rlist),
                       !.pc = IF dir.handles[Head(rd.rlist)].path \in nodes
                                THEN "drain" ELSE "iterate"]
    /\ UNCHANGED <<dir, nodes, watch, last_call, runVars, lifecycleVars,
                   readerVars>>

\* read(): for evdev_evt in device.read(): ...; reading a closed device
\* raises OSError, which leaves the generator.
ReadDrain ==
    /\ rd.pc = "drain"
    /\ rd' = [rd EXCEPT !.pc = IF dir.handles[rd.device].closed
                                 THEN "raised" ELSE "iterate"]
    /\ UNCHANGED <<dir, nodes, watch, last_call, runVars, lifecycleVars,
                   readerVars>>

\* reader.cleanup(), called by loop() when an interrupt or an exception has
\* ended its for loop.
DirCleanup ==
    /\ rd.pc \in {"loop", "select", "iterate", "drain", "raised"}
    /\ dir' = EvdevDirReaderCleanup(dir).dir
    /\ rd' = [rd EXCEPT !.pc = "done"]
    /\ UNCHANGED <<nodes, watch, last_call, runVars, lifecycleVars,
                   readerVars>>

DirNext ==
    \/ DirSetup
    \/ \E path \in PathSet : NodeCreated(path)
    \/ \E path \in PathSet : NodeDeleted(path)
    \/ OnCreated
    \/ OnDeleted
    \/ ReadSelect
    \/ ReadSelectReturn
    \/ ReadNext
    \/ ReadDrain
    \/ DirCleanup

DirSpec == DirInit /\ [][DirNext]_vars

\* C13: register_device(p) with p not a device leaves the reader as it was
\* (same mapping, no handle opened) and raises nothing; unregister_device(p)
\* with p not in the mapping leaves the reader as it was (same mapping, no
\* handle closed) and raises nothing.
C13_DirNoOps ==
    /\ (last_call.op = "register_device" /\ ~last_call.is_device) =>
          (last_call.after = last_call.before /\ last_call.raised = "none")
    /\ (last_call.op = "unregister_device" /\ ~last_call.known) =>
          (last_call.after = last_call.before /\ last_call.raised = "none")

\* C13 witness: on_deleted came for a path that was never registered, while
\* another device is open.
C13_Witness ==
    /\ last_call.op = "unregister_device"
    /\ ~last_call.known
    /\ last_call.before.devices # <<>>
    /\ dir.observer = "started"

\* C14: the read loop never waits in select on a device that was closed, nor
\* reads a device that was closed.
C14_ReadLoopSeesNoClosedHandle ==
    /\ rd.pc = "select" => \A h \in rd.snapshot : ~dir.handles[h].closed
    /\ rd.pc = "drain" => ~dir.handles[rd.device].closed


\* ------------------------------------------------- LineReader: the lines
\* In this part a Python str is the sequence of its characters, so that
\* matching and stripping work on characters; an int n is [int |-> n] and a
\* str s in a field that may hold either is [str |-> s].
\* The length of the lines read.
MaxLine == 3

\* The digits, and the characters of this model \w does not match.
DigitChars == <<"0", "1", "2", "3", "4", "5", "6", "7", "8", "9">>
DigitSet == {DigitChars[i] : i \in DOMAIN DigitChars}
NonWordChars == {".", " ", "-", ";", "{", "}", "\n", "\r"}

\* The kinds readers/evdev.py names, and the kind of the fallback of
\* LineReader.make_event.
EVENT_SYNC == <<"s", "y", "n", "c">>
EVENT_KEYPRESS == <<"k", "e", "y", "p", "r", "e", "s", "s">>
EVENT_KEYHOLD == <<"k", "e", "y", "h", "o", "l", "d">>
EVENT_KEYRELEASE == <<"k", "e", "y", "r", "e", "l", "e", "a", "s", "e">>
EVENT_RELMOVE == <<"r", "e", "l", "m", "o", "v", "e">>
EVENT_ABSMOVE == <<"a", "b", "s", "m", "o", "v", "e">>
LINE == <<"l", "i", "n", "e">>

\* The placeholders _convert_pattern knows, with the class of characters of
\* their group: w for \w+, d for \d+.
Fields == {"{kind}", "{symbol}", "{code}", "{value}"}
FieldName(t) ==
    CASE t = "{kind}" -> "kind" [] t = "{symbol}" -> "symbol"
      [] t = "{code}" -> "code" [] t = "{value}" -> "value"
FieldClass(t) == IF t \in {"{kind}", "{symbol}"} THEN "w" ELSE "d"

\* LineReader._convert_pattern(pattern): re.escape makes every character
\* match itself, then each placeholder becomes a named group.  A pattern is
\* the sequence of its placeholders and of its other characters.
ConvertPattern(pattern) ==
    [i \in DOMAIN pattern |->
        IF pattern[i] \in Fields
          THEN [group |-> FieldName(pattern[i]), class |-> FieldClass(pattern[i])]
          ELSE [lit |-> pattern[i]]]

\* Whether a character is in a class.
InClass(c, class) ==
    IF class = "d" THEN c \in DigitSet ELSE c \notin NonWordChars

\* The length of the longest run of characters of a class from pos on.
RECURSIVE Run(_, _, _)
Run(class, text, pos) ==
    IF pos <= Len(text) /\ InClass(text[pos], class)
      THEN 1 + Run(class, text, pos + 1)
      ELSE 0

\* match.groupdict() with one more group.
SetGroup(groups, name, s) ==
    [n \in (DOMAIN groups) \cup {name} |-> IF n = name THEN s ELSE groups[n]]

NoMatch == [matched |-> FALSE]

\* regexp.match(line) from pos on: a literal matches itself; a group takes
\* the longest run that lets the rest match (greedy, with backtracking); the
\* match need not reach the end of the line.
RECURSIVE MatchFrom(_, _, _, _), TryLen(_, _, _, _, _)
MatchFrom(re, text, pos, groups) ==
    IF re = <<>>
      THEN [matched |-> TRUE, groups |-> groups]
      ELSE IF "lit" \in DOMAIN Head(re)
        THEN IF pos <= Len(text) /\ text[pos] = Head(re).lit
               THEN MatchFrom(Tail(re), text, pos + 1, groups)
               ELSE NoMatch
        ELSE TryLen(re, text, pos, Run(Head(re).class, text, pos), groups)
TryLen(re, text, pos, n, groups) ==
    IF n = 0
      THEN NoMatch
      ELSE LET r == MatchFrom(Tail(re), text, pos + n,
                              SetGroup(groups, Head(re).group,
                                       SubSeq(text, pos, pos + n - 1)))
           IN  IF r.matched THEN r ELSE TryLen(re, text, pos, n - 1, groups)

\* self.regexp.match(line)
Match(re, line) == MatchFrom(re, line, 1, <<>>)

\* events.Event(**fields): kind is required (TypeError without it); code
\* and value default to the int 0, symbol to ''.  A captured code or value
\* is the str groupdict() holds.
EventOfFields(fields) ==
    IF "kind" \notin DOMAIN fields
      THEN [outcome |-> "raised", exc |-> "TypeError"]
      ELSE [outcome |-> "event",
            event |-> Event(
                fields.kind,
                IF "code" \in DOMAIN fields
                  THEN [str |-> fields.code] ELSE [int |-> 0],
                IF "symbol" \in DOMAIN fields THEN fields.symbol ELSE <<>>,
                IF "value" \in DOMAIN fields
                  THEN [str |-> fields.value] ELSE [int |-> 0])]

\* LineReader.make_event(line)
MakeEvent(re, line) ==
    LET match == Match(re, line)
    IN  IF match.matched
          THEN EventOfFields(match.groups)
          ELSE EventOfFields([kind |-> LINE, symbol |-> line])

\* line.rstrip(chars): without its trailing characters that are in chars.
RECURSIVE RStrip(_, _)
RStrip(line, chars) ==
    IF line # <<>> /\ \E i \in DOMAIN chars : chars[i] = line[Len(line)]
      THEN RStrip(SubSeq(line, 1, Len(line) - 1), chars)
      ELSE line

\* str(n) of an int n >= 0.
RECURSIVE Digits(_)
Digits(n) ==
    IF n < 10 THEN <<DigitChars[n + 1]>>
    ELSE Digits(n \div 10) \o <<DigitChars[(n % 10) + 1]>>

\* int(s) of a str of digits.
RECURSIVE ToInt(_)
ToInt(s) ==
    IF s = <<>> THEN 0
    ELSE 10 * ToInt(SubSeq(s, 1, Len(s) - 1))
           + (CHOOSE d \in 0..9 : DigitChars[d + 1] = s[Len(s)])

\* What str.format writes for a code or a value.
FormatValue(x) == IF "int" \in DOMAIN x THEN Digits(x.int) ELSE x.str

\* A variant of Event.key(pattern) whose format() call is not given the
\* code: {code} stays in the key as it is written.
RECURSIVE KeyKeepsCode(_, _)
KeyKeepsCode(e, pattern) ==
    IF pattern = <<>> THEN <<>>
    ELSE (CASE Head(pattern) = "{kind}" -> e.kind
            [] Head(pattern) = "{symbol}" -> e.symbol
            [] Head(pattern) = "{code}" -> <<"{", "c", "o", "d", "e", "}">>
            [] Head(pattern) = "{value}" -> FormatValue(e.value)
            [] OTHER -> <<Head(pattern)>>)
         \o KeyKeepsCode(e, Tail(pattern))

\* Event.key(pattern): pattern.format(kind=..., code=..., symbol=...,
\* value=...).
RECURSIVE Key(_, _)
Key(e, pattern) ==
    IF pattern = <<>> THEN <<>>
    ELSE (CASE Head(pattern) = "{kind}" -> e.kind
            [] Head(pattern) = "{symbol}" -> e.symbol
            [] Head(pattern) = "{code}" -> FormatValue(e.code)
            [] Head(pattern) = "{value}" -> FormatValue(e.value)
            [] OTHER -> <<Head(pattern)>>)
         \o Key(e, Tail(pattern))

\* The default of the pattern argument of Event.key and of LineReader.
DefaultPattern == <<"{kind}", ".", "{symbol}">>

\* PrintingExecutor.format_event(event) and the key of
\* BaseCommandExecutor.handle(event): event.key(), with no pattern given.
ExecutorKey(e) == Key(e, DefaultPattern)

\* The patterns a LineReader is given: the default '{kind}.{symbol}' and
\* others made of the placeholders.
Patterns ==
    { <<"{kind}", ".", "{symbol}">>,
      <<"{kind}", ".", "{code}">>,
      <<"{kind}", "{symbol}">>,
      <<"{symbol}">>,
      <<"{kind}", ".", "{symbol}", ".", "{value}">> }

\* The values of end_line.
EndLines == { <<"\n">>, <<"\r", "\n">>, <<";", "\n">> }

\* The characters of the lines read, and the lines: every text of at most
\* MaxLine characters, the example 'keypress.A', and lines with braces or
\* with a character of an end of line.
LineChars == {"a", "1", ".", " "}
Lines ==
    UNION {[1..n -> LineChars] : n \in 0..MaxLine}
      \cup {EVENT_KEYPRESS \o <<".", "A">>,
            <<"{", "a", "}">>, <<"a", ".", "a", "}">>, <<"a", ";">>}

\* The events formatted and read back.
FormattedEvents ==
    { Event(k, [int |-> c], y, [int |-> v]) :
        k \in {EVENT_KEYPRESS, LINE},
        c \in {0, 30},
        y \in {<<"A">>, <<"K", "E", "Y", "_", "A">>, <<"a", " ", "b">>, <<>>},
        v \in {0, 1} }

\* ------------------------------------------------- evdev: _map_event
\* The raw events of a device: evdev.InputEvent(type, code, value).  Codes 0
\* and 1 have a name in the tables of evdev, code 2 has none.
RawEvents ==
    [type : {"EV_SYN", "EV_KEY", "EV_REL", "EV_ABS", "EV_MSC"},
     code : 0..2, value : 0..3]

\* evdev.events.KeyEvent.key_up, key_down, key_hold
key_up == 0
key_down == 1
key_hold == 2

\* evdev.ecodes.SYN[code], REL[code], ABS[code], evdev.events.keys[code],
\* with the first name when a code has several.
SymbolOf(type, code) ==
    (CASE type = "EV_SYN" -> <<"S", "Y", "N", "_">>
       [] type = "EV_REL" -> <<"R", "E", "L", "_">>
       [] type = "EV_ABS" -> <<"A", "B", "S", "_">>
       [] OTHER -> <<"K", "E", "Y", "_">>) \o Digits(code)

\* _map_event(evdev_event): the Event, UnhandledEvent for a type or a key
\* value it does not know, KeyError for a code without a name.
MapEvent(ev) ==
    LET kind ==
          CASE ev.type = "EV_SYN" -> EVENT_SYNC
            [] ev.type = "EV_REL" -> EVENT_RELMOVE
            [] ev.type = "EV_ABS" -> EVENT_ABSMOVE
            [] ev.type = "EV_KEY" /\ ev.value = key_up -> EVENT_KEYRELEASE
            [] ev.type = "EV_KEY" /\ ev.value = key_down -> EVENT_KEYPRESS
            [] ev.type = "EV_KEY" /\ ev.value = key_hold -> EVENT_KEYHOLD
            [] OTHER -> <<>>
    IN  IF ev.type \notin {"EV_SYN", "EV_REL", "EV_ABS", "EV_KEY"}
          THEN [outcome |-> "raised", exc |-> "UnhandledEvent"]
        ELSE IF ev.type = "EV_KEY" /\ ev.value \notin {key_up, key_down, key_hold}
          THEN [outcome |-> "raised", exc |-> "UnhandledEvent"]
        ELSE IF ev.code = 2
          THEN [outcome |-> "raised", exc |-> "KeyError"]
        ELSE [outcome |-> "event",
              event |-> Event(kind, [int |-> ev.code],
                              SymbolOf(ev.type, ev.code),
                              [int |-> ev.value])]

\* A variant of the loop of read() that yields every event converted,
\* whatever the filter says.
ConvertNoFilter(kinds, ev) ==
    LET r == MapEvent(ev)
    IN  IF r.outcome = "event" THEN r
        ELSE IF r.exc = "UnhandledEvent" THEN [outcome |-> "skipped"]
        ELSE r

\* EvdevReader.convert_event and the body of the loop of read(): an
\* UnhandledEvent is logged and the raw event skipped; an event the filter
\* does not let through is skipped; any other exception leaves read().
ConvertAndFilter(kinds, ev) ==
    LET r == MapEvent(ev)
    IN  IF r.outcome = "event"
          THEN IF r.event.kind \in kinds THEN r ELSE [outcome |-> "skipped"]
          ELSE IF r.exc = "UnhandledEvent" THEN [outcome |-> "skipped"]
          ELSE r

\* ------------------------------------------------- the readers, reading
ReaderInit ==
    /\ reader \in
         { [cls |-> "LineReader", pattern |-> p, end_line |-> x] :
              p \in Patterns, x \in EndLines } \cup
         { [cls |-> c, kinds |-> k] :
              c \in {"EvdevReader", "EvdevDirReader"},
              k \in { {EVENT_KEYPRESS},
                      {EVENT_SYNC, EVENT_KEYPRESS, EVENT_KEYHOLD,
                       EVENT_KEYRELEASE, EVENT_RELMOVE, EVENT_ABSMOVE} } }
    /\ raw = <<>>
    /\ made = [outcome |-> "none"]
    /\ stream = [arrived |-> <<>>, yielded |-> <<>>, state |-> "reading"]
    /\ RunIdle
    /\ LifecycleIdle
    /\ DirIdle

\* LineReader.read(): the next line of the file, with its end of line;
\* make_event(line.rstrip(self.end_line)).
LineRead ==
    /\ reader.cls = "LineReader"
    /\ made.outcome = "none"
    /\ stream.arrived = <<>>
    /\ \E line \in Lines :
          /\ raw' = [text |-> line \o reader.end_line]
          /\ made' = MakeEvent(ConvertPattern(reader.pattern),
                               RStrip(line \o reader.end_line, reader.end_line))
    /\ UNCHANGED <<reader, stream, runVars, lifecycleVars, dirVars>>

\* LineReader.read() of a line another process printed: e.key(pattern) +
\* end_line, with the pattern and the end of line of the reader.
FormattedRead ==
    /\ reader.cls = "LineReader"
    /\ made.outcome = "none"
    /\ stream.arrived = <<>>
    /\ \E e \in FormattedEvents :
          LET text == Key(e, reader.pattern) \o reader.end_line
          IN  /\ raw' = [text |-> text, event |-> e]
              /\ made' = MakeEvent(ConvertPattern(reader.pattern),
                                   RStrip(text, reader.end_line))
    /\ UNCHANGED <<reader, stream, runVars, lifecycleVars, dirVars>>

\* EvdevReader.read() and EvdevDirReader.read(): one raw event of a device.
EvdevRead ==
    /\ reader.cls \in {"EvdevReader", "EvdevDirReader"}
    /\ made.outcome = "none"
    /\ stream.arrived = <<>>
    /\ \E ev \in RawEvents :
          /\ raw' = ev
          /\ made' = ConvertAndFilter(reader.kinds, ev)
    /\ UNCHANGED <<reader, stream, runVars, lifecycleVars, dirVars>>

\* An executor is handed the event: the key Event.key gives with the
\* configured pattern (the --format-pattern option), and the key the
\* executors compute.
FormatMade ==
    /\ made.outcome = "event"
    /\ "key" \notin DOMAIN made
    /\ \E p \in Patterns :
          made' = [outcome |-> "event", event |-> made.event,
                   format_pattern |-> p, key |-> Key(made.event, p),
                   executor_key |-> ExecutorKey(made.event)]
    /\ UNCHANGED <<reader, raw, stream, runVars, lifecycleVars, dirVars>>

\* The number of raw inputs of a stream.
MaxStream == 2

\* The lines of the streams: one that matches the default pattern, one that
\* matches only a lone group, one that matches nothing.
StreamLines == { <<"a", ".", "a">>, <<"a">>, <<" ">> }

\* The raw events of the streams: a key pressed, released, a key value that
\* is none of up, down, hold, a type _map_event does not know, a relative
\* move, a key without a name.
StreamRawEvents ==
    { [type |-> "EV_KEY", code |-> 0, value |-> key_down],
      [type |-> "EV_KEY", code |-> 1, value |-> key_up],
      [type |-> "EV_KEY", code |-> 0, value |-> 3],
      [type |-> "EV_MSC", code |-> 0, value |-> 0],
      [type |-> "EV_REL", code |-> 1, value |-> 1],
      [type |-> "EV_KEY", code |-> 2, value |-> key_down] }

\* One turn of the for loop of read(): the outcome r of converting the raw
\* input x is yielded when it is an event, ends the generator when it is an
\* exception, and is passed over when the input was skipped.
StreamAfter(x, r) ==
    [arrived |-> Append(stream.arrived, x),
     yielded |-> IF r.outcome = "event" THEN Append(stream.yielded, r.event)
                 ELSE stream.yielded,
     state |-> IF r.outcome = "raised" THEN "raised" ELSE "reading"]

\* LineReader.read(): for line in self.in_file, one more line.
ReadLine ==
    /\ reader.cls = "LineReader"
    /\ raw = <<>>
    /\ stream.state = "reading"
    /\ Len(stream.arrived) < MaxStream
    /\ \E line \in StreamLines :
          stream' = StreamAfter(
              line \o reader.end_line,
              MakeEvent(ConvertPattern(reader.pattern),
                        RStrip(line \o reader.end_line, reader.end_line)))
    /\ UNCHANGED <<reader, raw, made, runVars, lifecycleVars, dirVars>>

\* LineReader.read(): the file is exhausted, the for loop and the generator
\* end.
ReadEof ==
    /\ reader.cls = "LineReader"
    /\ raw = <<>>
    /\ stream.state = "reading"
    /\ stream' = [stream EXCEPT !.state = "ended"]
    /\ UNCHANGED <<reader, raw, made, runVars, lifecycleVars, dirVars>>

\* EvdevReader.read() and EvdevDirReader.read(): one more raw event.
ReadRaw ==
    /\ reader.cls \in {"EvdevReader", "EvdevDirReader"}
    /\ raw = <<>>
    /\ stream.state = "reading"
    /\ Len(stream.arrived) < MaxStream
    /\ \E ev \in StreamRawEvents :
          stream' = StreamAfter(ev, ConvertAndFilter(reader.kinds, ev))
    /\ UNCHANGED <<reader, raw, made, runVars, lifecycleVars, dirVars>>

ReaderNext ==
    \/ LineRead
    \/ FormattedRead
    \/ EvdevRead
    \/ FormatMade
    \/ ReadLine
    \/ ReadEof
    \/ ReadRaw

ReaderSpec == ReaderInit /\ [][ReaderNext]_vars

\* The fixed set of kinds.
Kinds ==
    {EVENT_SYNC, EVENT_KEYPRESS, EVENT_KEYHOLD, EVENT_KEYRELEASE,
     EVENT_RELMOVE, EVENT_ABSMOVE, LINE}

\* C15: every Event a reader yields has a kind of the fixed set.
C15_KindInFixedSet ==
    made.outcome = "event" => made.event.kind \in Kinds

\* The line make_event was given, and the match of the pattern on it.
LineGiven == RStrip(raw.text, reader.end_line)
LineMatch == Match(ConvertPattern(reader.pattern), LineGiven)
\* A group of the match, or a default when the pattern has no such group.
Captured(name, default) ==
    IF name \in DOMAIN LineMatch.groups THEN LineMatch.groups[name]
    ELSE default

\* C16: make_event(line) returns, when the line matches, the Event of the
\* captured kind and symbol, with the captured code and value as integers,
\* or the integer 0 for the one the pattern does not have; when the line does
\* not match, Event('line', 0, line, 0).
C16_LineParsing ==
    (reader.cls = "LineReader" /\ made.outcome # "none") =>
        /\ made.outcome = "event"
        /\ made.event =
             IF LineMatch.matched
               THEN Event(Captured("kind", <<>>),
                          [int |-> ToInt(Captured("code", <<"0">>))],
                          Captured("symbol", <<>>),
                          [int |-> ToInt(Captured("value", <<"0">>))])
               ELSE Event(LINE, [int |-> 0], LineGiven, [int |-> 0])

\* C17: reading e.key(p) + end_line with pattern p gives an Event of the
\* kind and the symbol of e, with code (value) 0 when p has no {code}
\* ({value}).
C17_RoundTrip ==
    (reader.cls = "LineReader" /\ made.outcome # "none"
       /\ "event" \in DOMAIN raw) =>
        /\ made.outcome = "event"
        /\ made.event.kind = raw.event.kind
        /\ made.event.symbol = raw.event.symbol
        /\ (\A i \in DOMAIN reader.pattern : reader.pattern[i] # "{code}") =>
              made.event.code = [int |-> 0]
        /\ (\A i \in DOMAIN reader.pattern : reader.pattern[i] # "{value}") =>
              made.event.value = [int |-> 0]


\* C21: the key an executor prints or looks up is the Event formatted
\* through the configured pattern.
C21_KeyUsesConfiguredPattern ==
    "key" \in DOMAIN made =>
        made.executor_key = Key(made.event, made.format_pattern)

\* Whether a str holds a brace.
HasBrace(str) == \E i \in DOMAIN str : str[i] \in {"{", "}"}

\* C23 as stated: the key of an Event a reader made, formatted with a pattern
\* of placeholders and brace-free text, holds no brace.
C23_KeyHasNoBrace ==
    "key" \in DOMAIN made => ~HasBrace(made.key)

\* C23, amended: the key holds a brace only when the kind or the symbol of
\* the Event holds one: no placeholder is left unreplaced.
C23_KeyBracesComeFromEvent ==
    ("key" \in DOMAIN made /\ HasBrace(made.key)) =>
        (HasBrace(made.event.kind) \/ HasBrace(made.event.symbol))

\* C23 witness: an Event whose symbol holds braces was formatted with a
\* pattern that has {symbol} and {value}.
C23_Witness ==
    /\ "key" \in DOMAIN made
    /\ made.format_pattern = <<"{kind}", ".", "{symbol}", ".", "{value}">>
    /\ made.event.symbol = <<"{", "a", "}">>
    /\ HasBrace(made.key)


\* A raw event of a type _map_event knows, with a key value it knows.
Recognized(ev) ==
    \/ ev.type \in {"EV_SYN", "EV_REL", "EV_ABS"}
    \/ ev.type = "EV_KEY" /\ ev.value \in {key_up, key_down, key_hold}

\* The events of the raw events evs that are recognized and whose kind is
\* in kinds, in the order of evs.
RECURSIVE Filtered(_, _)
Filtered(kinds, evs) ==
    IF evs = <<>> THEN <<>>
    ELSE LET r == MapEvent(Head(evs))
         IN  (IF Recognized(Head(evs)) /\ r.outcome = "event"
                   /\ r.event.kind \in kinds
                THEN <<r.event>> ELSE <<>>)
             \o Filtered(kinds, Tail(evs))

StripSuffix(line, suffix) ==
    IF Len(line) >= Len(suffix)
         /\ SubSeq(line, Len(line) - Len(suffix) + 1, Len(line)) = suffix
      THEN SubSeq(line, 1, Len(line) - Len(suffix))
      ELSE line

\* C27: what the line source makes of a line is what make_event makes of the
\* line without one trailing occurrence of end_line, as a whole string.
C27_EndLineStripped ==
    (reader.cls = "LineReader" /\ made.outcome # "none") =>
        LET expected == MakeEvent(ConvertPattern(reader.pattern),
                                  StripSuffix(raw.text, reader.end_line))
        IN  /\ made.outcome = expected.outcome
            /\ made.outcome = "event" => made.event = expected.event

\* C28: LineReader.read() yields one Event per line consumed, in stream
\* order (the Event make_event gives for that line), raises nothing, and ends
\* at the end of the stream.
C28_OneEventPerLine ==
    reader.cls = "LineReader" =>
        /\ stream.state # "raised"
        /\ Len(stream.yielded) = Len(stream.arrived)
        /\ \A i \in DOMAIN stream.yielded :
              LET r == MakeEvent(ConvertPattern(reader.pattern),
                                 RStrip(stream.arrived[i], reader.end_line))
              IN  r.outcome = "event" /\ r.event = stream.yielded[i]

\* ---------------------------------------- the async executor: the queue

\* The tasks a worker has taken from the queue and not yet marked done.
InFlight == {w \in Workers : wtask[w] # NoTask}

\* C22: AsyncExecutor.handle() never waits for a worker: whenever the loop is
\* about to call handle(), the call can complete at once, whatever the
\* workers are doing and however many tasks are queued, and the main thread is
\* never waiting for a command.
C22_AsyncHandleNeverWaits ==
    IsAsync =>
        /\ pc # "communicate"
        /\ child = NoTask
        /\ pc = "handle" => ENABLED Handle

\* C22 witness: handle() is about to be called a second time while the first
\* task is still queued and no worker has taken anything yet.
C22_Witness ==
    /\ IsAsync
    /\ pc = "handle"
    /\ Len(queue) = 1
    /\ started = <<>>
    /\ InFlight = {}
    /\ EventKey(event) \in DOMAIN command_map

\* C29: with jobs = N at most N tasks are in flight, only the N workers that
\* setup() started ever hold one, and queue.join() can return only when
\* nothing is queued and nothing is in flight.
C29_BoundedWorkerPool ==
    IsAsync =>
        /\ Cardinality(InFlight) <= executor.nb_jobs
        /\ InFlight \subseteq 1..executor.nb_jobs
        /\ Len(queue) + Cardinality(InFlight) <= unfinished
        /\ ENABLED JoinReturn => (queue = <<>> /\ InFlight = {})

\* C29 witness: with one job, join() waits while the worker holds one task and
\* another is still queued.
C29_Witness ==
    /\ IsAsync
    /\ executor.nb_jobs = 1
    /\ pc = "join"
    /\ Cardinality(InFlight) = 1
    /\ Len(queue) = 1

\* x is an element of the sequence q.
InSeq(x, q) == \E i \in 1..Len(q) : q[i] = x

\* C30: when loop() has ended, by returning or by an exception, after
\* reader.setup() was called, reader.cleanup() has been called.
C30_ReaderCleanedUp ==
    (pc \in {"returned", "raised"} /\ InSeq("reader.setup", calls)) =>
        InSeq("reader.cleanup", calls)

\* ------------------------------------------------- the exclusive hold

\* A setup() returned, and no cleanup() was called since.
SetUpAndNotCleaned ==
    \E i \in 1..Len(ops) :
        /\ ops[i].op = "setup"
        /\ ops[i].raised = "none"
        /\ \A j \in (i + 1)..Len(ops) : ops[j].op # "cleanup"

\* C26: in exclusive mode the single-device reader holds the grab on its open
\* device from the return of setup() until cleanup(), and every handle in the
\* mapping of the directory reader is open and grabbed; in shared mode no
\* handle is grabbed.
C26_ExclusiveHold ==
    /\ obj.cls = "EvdevReader" =>
          /\ (obj.exclusive /\ SetUpAndNotCleaned) =>
                (obj.device.grabbed /\ ~obj.device.closed)
          /\ ~obj.exclusive => ~obj.device.grabbed
    /\ obj.cls = "EvdevDirReader" =>
          /\ obj.dir.exclusive =>
                \A q \in DOMAIN obj.dir.devices :
                    /\ obj.dir.handles[obj.dir.devices[q]].grabbed
                    /\ ~obj.dir.handles[obj.dir.devices[q]].closed
          /\ ~obj.dir.exclusive =>
                \A i \in 1..Len(obj.dir.handles) : ~obj.dir.handles[i].grabbed

\* C26 witness: an exclusive single-device reader after a setup() that
\* returned and a second setup() that found the device held.
C26_Witness ==
    /\ obj.cls = "EvdevReader"
    /\ obj.exclusive
    /\ Len(ops) = 2
    /\ ops[1].op = "setup" /\ ops[1].raised = "none"
    /\ ops[2].op = "setup"
    /\ obj.device.grabbed

\* ------------------------------------- the directory reader: cleanup()

\* C24: after EvdevDirReader.cleanup() has returned the mapping of devices is
\* empty, every handle register_device ever opened is closed, and the
\* observer delivers nothing more.
C24_CleanupClosesEverything ==
    rd.pc = "done" =>
        /\ DOMAIN dir.devices = {}
        /\ \A i \in 1..Len(dir.handles) : dir.handles[i].closed
        /\ dir.observer # "started"

\* ------------------------------------------ the workers: the stop signal

\* The tasks worker w can still start once the stop signal is set: one when
\* it has passed its stop check (it waits in queue.get(), or holds a task it
\* has not begun), none otherwise.
CanStart(wp, w) == IF wp[w] \in {"get", "execute"} THEN 1 ELSE 0

\* n plus the starts left to the workers of S, at the positions wp.
RECURSIVE SumOver(_, _, _)
SumOver(wp, S, n) ==
    IF S = {} THEN n
    ELSE LET w == CHOOSE x \in S : TRUE
         IN  SumOver(wp, S \ {w}, n + CanStart(wp, w))

\* C31: once AsyncExecutor.cleanup() has set the stop signal, a worker that
\* checks the signal exits, without taking a task, and stays exited; every
\* task started uses up the one start of a worker that had passed its check,
\* and no worker gets a new one: at most nb_jobs tasks start after the signal.
C31_StopLimitsWork ==
    [][(IsAsync /\ stopped) =>
          /\ SumOver(wpc, Workers, 0) <= executor.nb_jobs
          /\ Len(started') - Len(started)
                <= SumOver(wpc, Workers, 0) - SumOver(wpc', Workers, 0)
          /\ \A w \in Workers :
                /\ CanStart(wpc', w) <= CanStart(wpc, w)
                /\ (wpc[w] = "check" /\ wpc'[w] # "check") =>
                      (wpc'[w] = "exited" /\ queue' = queue
                         /\ wtask'[w] = NoTask)
                /\ wpc[w] = "exited" => wpc'[w] = "exited"]_vars

\* C31 witness: after the signal one worker has seen it and exited, leaving a
\* task in the queue, while the other, which had passed its check, holds a
\* task it has yet to start.
C31_Witness ==
    /\ IsAsync
    /\ stopped
    /\ wpc[1] = "exited"
    /\ wpc[2] = "execute"
    /\ Len(queue) = 1
    /\ started = <<>>

\* ------------------------------------------------ the queue: its order

\* C32: the tasks still queued are the tasks put last, in the order they were
\* put, so the tasks are dequeued in the order handle() enqueued them; and
\* with one job the commands are started and completed in that order.
C32_Fifo ==
    IsAsync =>
        /\ Len(queue) <= Len(submitted)
        /\ Ids(queue) = SubSeq(submitted, Len(submitted) - Len(queue) + 1,
                               Len(submitted))
        /\ executor.nb_jobs = 1 =>
              /\ IsPrefix(started, submitted)
              /\ IsPrefix(finished, started)
              /\ \A w \in Workers :
                    wtask[w] # NoTask =>
                        wtask[w].id
                          = submitted[Len(submitted) - Len(queue)]

\* C32 witness: the single worker has completed the first of two tasks and
\* holds the second, enqueued while the first was running.
C32_Witness ==
    /\ IsAsync
    /\ executor.nb_jobs = 1
    /\ submitted = <<1, 2>>
    /\ finished = <<1>>
    /\ wtask[1].id = 2
    /\ wpc[1] = "execute"

\* ----------------------------------- the directory reader: its handles

\* Handle i of directory reader d is the device the mapping holds for its
\* path.
IsMapped(d, i) ==
    /\ d.handles[i].path \in DOMAIN d.devices
    /\ d.devices[d.handles[i].path] = i

\* C33: every device the directory reader has opened is the device its
\* mapping holds for its path, or has been closed.
C33_NoHandleLeak ==
    obj.cls = "EvdevDirReader" =>
        \A i \in 1..Len(obj.dir.handles) :
            obj.dir.handles[i].closed \/ IsMapped(obj.dir, i)

====
